---- MODULE Spec2Model ----
(***************************************************************************)
(* Model of backend/routes/moves.py: the in-memory job ledger JOBS, the    *)
(* two request handlers start_move_job and get_job_status, the resolver    *)
(* _resolve_company_ids, the background coroutine _run_move_job and the    *)
(* conflict-safe writer _upsert_associations.                              *)
(*                                                                         *)
(* Scheduling: both handlers are plain `def` routes, so they run in worker *)
(* threads and may interleave with a runner between any two of its         *)
(* statements.  Runners are coroutines of one event loop: a runner gives   *)
(* the loop to another runner only at `await asyncio.sleep` (line 165) or  *)
(* when it returns.  `loop` names the runner that holds the event loop.    *)
(***************************************************************************)
EXTENDS Integers, Sequences, FiniteSets, TLC

\* ---- bounds of the model ----
MaxJobs == 1          \* submissions accepted over a behaviour of Spec
MaxIdsLen == 3        \* longest explicit selection.ids list

\* ---- program constants ----
BATCH == 1

Items == {1, 2}                \* company ids
Lists == {"A", "B"}            \* collection ids
JobIds == 1..(MaxJobs + 1)     \* job ids in order of issue (uuid4 never repeats)
None == "None"                 \* Python None in a string- or float-typed field
Now == "time"                  \* a value of time.time()
ErrText == "error"             \* str(e)

VARIABLES
    JOBS,      \* the ledger: job id -> _Job record
    db,        \* storage: the set of <<company_id, collection_id>> rows
    task,      \* job id -> frame of its _run_move_job coroutine
    loop,      \* id of the runner holding the event loop, 0 when none does
    nextId,    \* next job id to issue
    reply,     \* what the request handled in the last step returned
    probe      \* a direct call of the resolver or the writer and what it returned

vars == <<JOBS, db, task, loop, nextId, reply, probe>>

\* ---- helpers ----
Min(a, b) == IF a < b THEN a ELSE b

Range(s) == {s[k] : k \in 1..Len(s)}

SeqsUpTo(S, n) == UNION {[1..k -> S] : k \in 0..n}

\* every order in which a query without ORDER BY may return the set S
Orders(S) == {s \in [1..Cardinality(S) -> S] : Range(s) = S}

\* variant: excludeIds not applied
Without_ignored(s, excl) == s

\* [x for x in s if x not in excl]
RECURSIVE Without(_, _)
Without(s, excl) ==
    IF s = <<>> THEN <<>>
    ELSE IF Head(s) \in excl THEN Without(Tail(s), excl)
         ELSE <<Head(s)>> \o Without(Tail(s), excl)

\* variant: seen.add(cid) forgotten
RECURSIVE DedupLoop_unseen(_, _, _)
DedupLoop_unseen(ids, seen, out) ==
    IF ids = <<>> THEN out
    ELSE IF Head(ids) \notin seen
         THEN DedupLoop_unseen(Tail(ids), seen, Append(out, Head(ids)))
         ELSE DedupLoop_unseen(Tail(ids), seen, out)

\* the seen/out loop of the ids branch
RECURSIVE DedupLoop(_, _, _)
DedupLoop(ids, seen, out) ==
    IF ids = <<>> THEN out
    ELSE IF Head(ids) \notin seen
         THEN DedupLoop(Tail(ids), seen \cup {Head(ids)}, Append(out, Head(ids)))
         ELSE DedupLoop(Tail(ids), seen, out)

\* Selection: ids is Optional[list]; hasIds says whether it is not None.
\* all is Optional[bool]: "None", "True" or "False".
Selection(hasIds, ids, all, excludeIds) ==
    [hasIds |-> hasIds, ids |-> ids, all |-> all, excludeIds |-> excludeIds]

StartMoveRequest(src, tgt, sel) ==
    [sourceListId |-> src, targetListId |-> tgt, selection |-> sel]

\* the requests a caller may send
Selections ==
    {Selection(TRUE, ids, None, <<>>) : ids \in SeqsUpTo(Items, MaxIdsLen)}
    \cup {Selection(FALSE, <<>>, all, ex) :
            all \in {None, "True", "False"}, ex \in SeqsUpTo(Items, 1)}
    \cup {Selection(TRUE, <<2, 1>>, "True", <<1>>)}

\* the selections sent with source = target: one of each kind
SameListSelections ==
    {Selection(TRUE, <<1>>, None, <<>>), Selection(FALSE, <<>>, "True", <<>>),
     Selection(FALSE, <<>>, None, <<>>)}

Requests ==
    {r \in {StartMoveRequest(s, t, sel) : s \in Lists, t \in Lists, sel \in Selections} :
        r.sourceListId # r.targetListId}
    \cup {StartMoveRequest(l, l, sel) : l \in Lists, sel \in SameListSelections}

\* variant: `if sel.ids:` in place of `if sel.ids is not None:`
ResolveRaises_truthy(body) ==
    /\ ~body.selection.hasIds \/ body.selection.ids = <<>>
    /\ body.selection.all # "True"

\* _resolve_company_ids raises HTTPException(400)
ResolveRaises(body) ==
    /\ ~body.selection.hasIds
    /\ body.selection.all # "True"

\* the lists _resolve_company_ids may return on storage d
resolve_company_ids(d, body) ==
    LET sel == body.selection IN
    IF sel.hasIds THEN {DedupLoop(sel.ids, {}, <<>>)}
    ELSE IF sel.all = "True"
         THEN {Without(all_ids, Range(sel.excludeIds)) :
                 all_ids \in Orders({c \in Items : <<c, body.sourceListId>> \in d})}
         ELSE {}

\* variant: the entry is created already running
NewJob_running(n) ==
    [status |-> "running", moved |-> 0, total |-> n, duplicates |-> 0,
     startedAt |-> Now, finishedAt |-> None, message |-> None]

\* the ledger entry written at lines 90-98
NewJob(n) ==
    [status |-> "queued", moved |-> 0, total |-> n, duplicates |-> 0,
     startedAt |-> Now, finishedAt |-> None, message |-> None]

\* the coroutine object bg.add_task holds: its arguments and locals.
\* History fields, not read by any action's guard or result: log lists the
\* writer calls that returned, as <<chunk, inserted>>; source is the request's
\* sourceListId; disturbed says whether the source's membership was changed
\* by somebody else after submission and before the coroutine returned;
\* before is storage as it was at submission.
NewTask(ids, tgt, src, d) ==
    [pc |-> "scheduled", company_ids |-> ids, target_list_id |-> tgt,
     i |-> 0, inserted |-> 0, log |-> <<>>, source |-> src, disturbed |-> FALSE,
     before |-> d]

\* What a handler returns.  op names the handler ("start", "poll"), code is
\* the HTTP status, jobId the id the response or the request carries, job the
\* response body.
\* JobStatus(jobId=job_id, **job): the entry's fields as they are at this moment
JobStatus(op, id, job) == [op |-> op, code |-> 200, jobId |-> id, job |-> job]

HTTPException(op, code, id, detail) ==
    [op |-> op, code |-> code, jobId |-> id, job |-> [detail |-> detail]]

\* the last step was no request
NoReply == [op |-> "none", code |-> 0, jobId |-> 0, job |-> [detail |-> ""]]

\* no direct call was made
NoProbe == [fn |-> "none"]

\* storage at process start: empty; list A holding both companies; the same
\* with company 1 in list B as well
InitialStorage ==
    {{}, {<<1, "A">>, <<2, "A">>}, {<<1, "A">>, <<2, "A">>, <<1, "B">>}}

Init ==
    /\ JOBS = <<>>
    /\ db \in InitialStorage
    /\ task = <<>>
    /\ loop = 0
    /\ nextId = 1
    /\ reply = NoReply
    /\ probe = NoProbe

\* ---- the writer and the runner's loop arithmetic ----

\* variant: company_ids[i:], the slice's upper end forgotten
Chunk_tail(t) == SubSeq(t.company_ids, t.i + 1, Len(t.company_ids))

\* variant: the chunk is read from the source's membership as it is now
Chunk_live(t) ==
    LET cur == {c \in Items : <<c, t.source>> \in db}
        s == CHOOSE q \in Orders(cur) : \A a, b \in 1..Len(q) : a < b => q[a] < q[b]
    IN SubSeq(s, t.i + 1, Min(t.i + BATCH, Len(s)))

\* variant: the list is walked from its end
Chunk_backward(t) ==
    SubSeq(t.company_ids, Len(t.company_ids) - Min(t.i + BATCH, Len(t.company_ids)) + 1,
           Len(t.company_ids) - t.i)

\* company_ids[i:i + BATCH]
Chunk(t) == SubSeq(t.company_ids, t.i + 1, Min(t.i + BATCH, Len(t.company_ids)))

\* variant: the loop ends one chunk early
LoopHead_early(t, k) == IF k + BATCH < Len(t.company_ids) THEN "upsert" ELSE "completed"

\* where the for statement of line 154 goes once the index is k
LoopHead(t, k) == IF k < Len(t.company_ids) THEN "upsert" ELSE "completed"

\* variant: the statement's row count is taken from the rows sent, not from
\* the rows RETURNING gives back
upsert_associations_sent(d, company_ids, target_list_id) ==
    IF company_ids = <<>> THEN <<d, 0>>
    ELSE LET rows == {<<cid, target_list_id>> : cid \in Range(company_ids)}
         IN <<d \cup rows, Cardinality(rows)>>

\* variant: the association is moved, the company's rows in the other
\* collections are deleted
upsert_associations_moved(d, company_ids, target_list_id) ==
    IF company_ids = <<>> THEN <<d, 0>>
    ELSE LET rows == {<<cid, target_list_id>> : cid \in Range(company_ids)}
             gone == {r \in d : r[1] \in Range(company_ids) /\ r[2] # target_list_id}
         IN <<(d \ gone) \cup rows, Cardinality(rows \ d)>>

\* INSERT ... ON CONFLICT DO NOTHING RETURNING, lines 182-196:
\* <<storage afterwards, number of rows returned>>
upsert_associations(d, company_ids, target_list_id) ==
    IF company_ids = <<>> THEN <<d, 0>>
    ELSE LET rows == {<<cid, target_list_id>> : cid \in Range(company_ids)}
         IN <<d \cup rows, Cardinality(rows \ d)>>

\* ---- request handlers ----

\* variant: the handler runs the first chunk itself before it returns
start_move_job_inline(body) ==
    /\ body.sourceListId # body.targetListId /\ ~ResolveRaises(body)
    /\ \E ids \in resolve_company_ids(db, body) :
         LET first == SubSeq(ids, 1, Min(BATCH, Len(ids)))
             r == upsert_associations(db, first, body.targetListId)
             t == NewTask(ids, body.targetListId, body.sourceListId, db)
         IN /\ db' = r[1]
            /\ JOBS' = (nextId :> [NewJob(Len(ids)) EXCEPT !.moved = Len(first),
                                      !.duplicates = Len(first) - r[2]]) @@ JOBS
            /\ task' = (nextId :> [t EXCEPT !.i = BATCH, !.log = <<<<first, r[2]>>>>]) @@ task
            /\ reply' = JobStatus("start", nextId, JOBS'[nextId])
            /\ nextId' = nextId + 1
            /\ UNCHANGED <<probe, loop>>

\* POST /moves/batch, lines 83-103
start_move_job(body) ==
    IF body.sourceListId = body.targetListId
       THEN /\ reply' = HTTPException("start", 400, 0, "Source and target lists must differ")
            /\ UNCHANGED <<probe, JOBS, db, task, loop, nextId>>
       ELSE IF ResolveRaises(body)
       THEN /\ reply' = HTTPException("start", 400, 0,
                                      "Provide either selection.ids or selection.all=true")
            /\ UNCHANGED <<probe, JOBS, db, task, loop, nextId>>
       ELSE \E ids \in resolve_company_ids(db, body) :
            /\ nextId' = nextId + 1
            /\ JOBS' = (nextId :> NewJob(Len(ids))) @@ JOBS
            /\ task' = (nextId :> NewTask(ids, body.targetListId, body.sourceListId, db)) @@ task
            /\ reply' = JobStatus("start", nextId, JOBS'[nextId])
            /\ UNCHANGED <<probe, db, loop>>

\* GET /moves/jobs/{job_id}, lines 106-113
get_job_status(job_id) ==
    /\ reply' = IF job_id \in DOMAIN JOBS
                THEN JobStatus("poll", job_id, JOBS[job_id])
                ELSE HTTPException("poll", 404, job_id, "Job not found")
    /\ UNCHANGED <<probe, JOBS, db, task, loop, nextId>>

\* ---- the background coroutine _run_move_job, lines 139-173 ----

Running(j) == j \in DOMAIN task

\* lines 143-144: job["status"] = "running"; the task takes the event loop
run_start(j) ==
    /\ Running(j) /\ task[j].pc = "scheduled" /\ loop = 0
    /\ JOBS' = [JOBS EXCEPT ![j].status = "running"]
    /\ task' = [task EXCEPT ![j].pc = LoopHead(task[j], 0)]
    /\ loop' = j
    /\ reply' = NoReply
    /\ UNCHANGED <<probe, db, nextId>>

\* variant: the job keeps the storage it read at submission, adds its rows to
\* that and writes the whole back
run_upsert_snapshot(j) ==
    /\ Running(j) /\ task[j].pc = "upsert" /\ loop \in {0, j}
    /\ LET t == task[j]
           own == {<<c, t.target_list_id>> : c \in Range(SubSeq(t.company_ids, 1, t.i))}
           r == upsert_associations(t.before \cup own, Chunk(t), t.target_list_id) IN
       /\ db' = r[1]
       /\ task' = [task EXCEPT ![j].pc = "moved", ![j].inserted = r[2],
                               ![j].log = Append(@, <<Chunk(t), r[2]>>)]
    /\ loop' = j
    /\ reply' = NoReply
    /\ UNCHANGED <<probe, JOBS, nextId>>

\* lines 155-158, the writer returns
run_upsert(j) ==
    /\ Running(j) /\ task[j].pc = "upsert" /\ loop \in {0, j}
    /\ LET r == upsert_associations(db, Chunk(task[j]), task[j].target_list_id) IN
       /\ db' = r[1]
       /\ task' = [task EXCEPT ![j].pc = "moved", ![j].inserted = r[2],
                               ![j].log = Append(@, <<Chunk(task[j]), r[2]>>)]
    /\ loop' = j
    /\ reply' = NoReply
    /\ UNCHANGED <<probe, JOBS, nextId>>

\* variant: moved is counted before the writer is called
run_upsert_raises_counted(j) ==
    /\ j \in DOMAIN task /\ task[j].pc = "upsert" /\ loop \in {0, j}
    /\ JOBS' = [JOBS EXCEPT ![j].moved = @ + Len(Chunk(task[j]))]
    /\ task' = [task EXCEPT ![j].pc = "failed"]
    /\ loop' = j
    /\ reply' = NoReply
    /\ UNCHANGED <<probe, db, nextId>>

\* lines 155-158, the writer (execute or commit) raises: nothing is committed
run_upsert_raises(j) ==
    /\ Running(j) /\ task[j].pc = "upsert" /\ loop \in {0, j}
    /\ task' = [task EXCEPT ![j].pc = "failed"]
    /\ loop' = j
    /\ reply' = NoReply
    /\ UNCHANGED <<probe, JOBS, db, nextId>>

\* variant: the runner counts on the newest entry of the ledger
run_moved_latest(j) ==
    /\ Running(j) /\ task[j].pc = "moved"
    /\ JOBS' = [JOBS EXCEPT ![nextId - 1].moved = @ + Len(Chunk(task[j]))]
    /\ task' = [task EXCEPT ![j].pc = "duplicates"]
    /\ reply' = NoReply
    /\ UNCHANGED <<probe, db, loop, nextId>>

\* line 161: job["moved"] += len(chunk)
run_moved(j) ==
    /\ Running(j) /\ task[j].pc = "moved"
    /\ JOBS' = [JOBS EXCEPT ![j].moved = @ + Len(Chunk(task[j]))]
    /\ task' = [task EXCEPT ![j].pc = "duplicates"]
    /\ reply' = NoReply
    /\ UNCHANGED <<probe, db, loop, nextId>>

\* variant: duplicates is raised by the rows inserted
run_duplicates_swapped(j) ==
    /\ Running(j) /\ task[j].pc = "duplicates"
    /\ JOBS' = [JOBS EXCEPT ![j].duplicates = @ + task[j].inserted]
    /\ task' = [task EXCEPT ![j].i = @ + BATCH,
                            ![j].pc = LoopHead(task[j], task[j].i + BATCH)]
    /\ loop' = 0
    /\ reply' = NoReply
    /\ UNCHANGED <<probe, db, nextId>>

\* lines 162-165: job["duplicates"] += len(chunk) - inserted, then the task
\* sleeps and gives up the event loop; it resumes at the for statement
run_duplicates(j) ==
    /\ Running(j) /\ task[j].pc = "duplicates"
    /\ JOBS' = [JOBS EXCEPT ![j].duplicates = @ + Len(Chunk(task[j])) - task[j].inserted]
    /\ task' = [task EXCEPT ![j].i = @ + BATCH,
                            ![j].pc = LoopHead(task[j], task[j].i + BATCH)]
    /\ loop' = 0
    /\ reply' = NoReply
    /\ UNCHANGED <<probe, db, nextId>>

\* line 167: job["status"] = "completed"
run_completed(j) ==
    /\ Running(j) /\ task[j].pc = "completed" /\ loop \in {0, j}
    /\ JOBS' = [JOBS EXCEPT ![j].status = "completed"]
    /\ task' = [task EXCEPT ![j].pc = "finishedAt"]
    /\ loop' = j
    /\ reply' = NoReply
    /\ UNCHANGED <<probe, db, nextId>>

\* variant: the handler does not catch the writer's exception class, which
\* ends the coroutine
run_failed_escapes(j) ==
    /\ j \in DOMAIN task /\ task[j].pc = "failed"
    /\ task' = [task EXCEPT ![j].pc = "done"]
    /\ loop' = 0
    /\ reply' = NoReply
    /\ UNCHANGED <<probe, JOBS, db, nextId>>

\* line 171: job["status"] = "failed"
run_failed(j) ==
    /\ Running(j) /\ task[j].pc = "failed"
    /\ JOBS' = [JOBS EXCEPT ![j].status = "failed"]
    /\ task' = [task EXCEPT ![j].pc = "message"]
    /\ reply' = NoReply
    /\ UNCHANGED <<probe, db, loop, nextId>>

\* line 172: job["message"] = str(e)
run_message(j) ==
    /\ Running(j) /\ task[j].pc = "message"
    /\ JOBS' = [JOBS EXCEPT ![j].message = ErrText]
    /\ task' = [task EXCEPT ![j].pc = "finishedAt"]
    /\ reply' = NoReply
    /\ UNCHANGED <<probe, db, loop, nextId>>

\* variant: a finished job's entry is dropped from the ledger
run_finishedAt_evict(j) ==
    /\ j \in DOMAIN task /\ task[j].pc = "finishedAt"
    /\ JOBS' = [k \in DOMAIN JOBS \ {j} |-> JOBS[k]]
    /\ task' = [task EXCEPT ![j].pc = "done"]
    /\ loop' = 0
    /\ reply' = NoReply
    /\ UNCHANGED <<probe, db, nextId>>

\* lines 168 and 173: job["finishedAt"] = time.time(); the coroutine returns
run_finishedAt(j) ==
    /\ Running(j) /\ task[j].pc = "finishedAt"
    /\ JOBS' = [JOBS EXCEPT ![j].finishedAt = Now]
    /\ task' = [task EXCEPT ![j].pc = "done"]
    /\ loop' = 0
    /\ reply' = NoReply
    /\ UNCHANGED <<probe, db, nextId>>

Runner(j) ==
    \/ run_start(j)
    \/ run_upsert(j)
    \/ run_upsert_raises(j)
    \/ run_moved(j)
    \/ run_duplicates(j)
    \/ run_completed(j)
    \/ run_failed(j)
    \/ run_message(j)
    \/ run_finishedAt(j)

\* ---- environment ----

\* the process is restarted: the module is imported anew (line 39, JOBS = {}),
\* the tasks of the old process are gone, storage is kept
Restart ==
    /\ JOBS # <<>>
    /\ JOBS' = <<>>
    /\ task' = <<>>
    /\ loop' = 0
    /\ reply' = NoReply
    /\ UNCHANGED <<probe, db, nextId>>

\* another part of the application adds or removes one association
ExternalChange ==
    /\ \E row \in Items \X Lists :
         /\ db' = db \cup {row} \/ db' = db \ {row}
         /\ task' = [j \in DOMAIN task |->
                       IF task[j].pc # "done" /\ task[j].source = row[2]
                       THEN [task[j] EXCEPT !.disturbed = TRUE] ELSE task[j]]
    /\ db' # db
    /\ reply' = NoReply
    /\ UNCHANGED <<probe, JOBS, loop, nextId>>

\* a request to POST /moves/batch arrives, while fewer than n jobs were accepted
Submit(n) == nextId <= n /\ \E body \in Requests : start_move_job(body)

Poll == \E id \in JobIds : get_job_status(id)

Next ==
    \/ Submit(MaxJobs)
    \/ Poll
    \/ \E j \in JobIds : Runner(j)
    \/ Restart

\* the handlers, the runners and restarts; storage is written by the runners only
Spec == Init /\ [][Next]_vars

\* the same under the event loop's scheduling: a runner that can take a step
\* eventually takes one (the loop runs every ready task, the sleep of line 165
\* ends); restarts and requests are under no obligation to happen
FairSpec == Spec /\ \A j \in JobIds : WF_vars(Runner(j))

\* one job, with other writers changing storage at any moment
NextEnv ==
    \/ Submit(1)
    \/ Poll
    \/ \E j \in JobIds : Runner(j)
    \/ Restart
    \/ ExternalChange

SpecEnv == Init /\ [][NextEnv]_vars

\* one job more than Spec admits, so that runners of different jobs interleave
NextPair ==
    \/ Submit(MaxJobs + 1)
    \/ Poll
    \/ \E j \in JobIds : Runner(j)
    \/ Restart

SpecPair == Init /\ [][NextPair]_vars

\* ---- direct calls of the resolver and the writer ----

MaxCallIdsLen == 5    \* longest ids list handed to the resolver directly

\* company ids a caller may name that are in no collection
Strangers == {3, 5, 7}

Other(l) == IF l = "A" THEN "B" ELSE "A"

\* the bodies handed to _resolve_company_ids: with an ids list, whatever `all`
\* and excludeIds say beside it; without one, every `all` and every
\* excludeIds of members and strangers
ResolveCalls ==
    {StartMoveRequest(s, Other(s), Selection(TRUE, ids, all, ex)) :
        s \in Lists,
        ids \in SeqsUpTo(Strangers, MaxCallIdsLen) \cup SeqsUpTo(Items, MaxIdsLen),
        all \in {None, "True"}, ex \in {<<>>, <<5>>, <<1>>}}
    \cup {StartMoveRequest(s, Other(s), Selection(FALSE, <<>>, all, ex)) :
        s \in Lists, all \in {None, "True", "False"},
        ex \in SeqsUpTo(Items \cup {5}, 2)}

\* _resolve_company_ids(db, body) is called on the storage as it is
resolve_call ==
    /\ probe = NoProbe
    /\ \E body \in ResolveCalls :
         IF ResolveRaises(body)
         THEN probe' = [fn |-> "resolve", body |-> body, raised |-> TRUE, out |-> <<>>]
         ELSE \E out \in resolve_company_ids(db, body) :
                probe' = [fn |-> "resolve", body |-> body, raised |-> FALSE, out |-> out]
    /\ UNCHANGED <<JOBS, db, task, loop, nextId, reply>>

\* _upsert_associations(db, company_ids, target_list_id) is called twice in a
\* row with the same arguments
upsert_call ==
    /\ probe = NoProbe
    /\ \E company_ids \in SeqsUpTo(Items, 2), target_list_id \in Lists :
         LET first == upsert_associations(db, company_ids, target_list_id)
             second == upsert_associations(first[1], company_ids, target_list_id)
         IN /\ probe' = [fn |-> "upsert", company_ids |-> company_ids,
                         target_list_id |-> target_list_id, before |-> db,
                         between |-> first[1], first |-> first[2], second |-> second[2]]
            /\ db' = second[1]
    /\ UNCHANGED <<JOBS, task, loop, nextId, reply>>

\* any storage over the two companies and the two collections
InitCalls ==
    /\ JOBS = <<>>
    /\ db \in SUBSET (Items \X Lists)
    /\ task = <<>>
    /\ loop = 0
    /\ nextId = 1
    /\ reply = NoReply
    /\ probe = NoProbe

NextCalls ==
    \/ resolve_call
    \/ upsert_call

\* the two functions called on their own, on every storage
SpecCalls == InitCalls /\ [][NextCalls]_vars

\* ---- properties ----

Terminal == {"completed", "failed"}

\* the number of attempts that inserted nothing among the writer calls of
\* `log` covering the first m items
RECURSIVE Skipped(_, _)
Skipped(log, m) ==
    IF m <= 0 \/ log = <<>> THEN 0
    ELSE Len(Head(log)[1]) - Head(log)[2] + Skipped(Tail(log), m - Len(Head(log)[1]))

\* the items of the writer calls of `log`, in order
RECURSIVE Attempted(_)
Attempted(log) == IF log = <<>> THEN <<>> ELSE Head(log)[1] \o Attempted(Tail(log))

\* the number of rows the writer calls of `log` reported as inserted
RECURSIVE Inserted(_)
Inserted(log) == IF log = <<>> THEN 0 ELSE Head(log)[2] + Inserted(Tail(log))

\* a job is between two chunks: not between the writer's return and the
\* second of the two counter updates
AtBoundary(j) == task[j].pc \notin {"moved", "duplicates"}

\* moved - duplicates summed over the jobs of S
RECURSIVE NewCounted(_)
NewCounted(S) ==
    IF S = {} THEN 0
    ELSE LET j == CHOOSE x \in S : TRUE
         IN JOBS[j].moved - JOBS[j].duplicates + NewCounted(S \ {j})

PollOf(j) == reply.op = "poll" /\ reply.code = 200 /\ reply.jobId = j

\* C1: a ledger entry is created with status queued, and the only status
\* changes any step makes are queued->running, running->completed and
\* running->failed.
C1_StatusSteps ==
    [][\A j \in DOMAIN JOBS' :
         IF j \notin DOMAIN JOBS
         THEN JOBS'[j].status = "queued"
         ELSE \/ JOBS'[j].status = JOBS[j].status
              \/ <<JOBS[j].status, JOBS'[j].status>> \in
                   {<<"queued", "running">>, <<"running", "completed">>,
                    <<"running", "failed">>}]_vars

\* a two-item job went from queued through running to completed
C1_Witness ==
    \E j \in DOMAIN JOBS :
        /\ JOBS[j].status = "completed" /\ task[j].pc = "done"
        /\ JOBS[j].moved = 2

\* C2: in every state, and so in every snapshot a poll returns, every job has
\* moved <= total and 0 <= duplicates <= moved.
C2_Counters ==
    /\ \A j \in DOMAIN JOBS :
         /\ JOBS[j].moved <= JOBS[j].total
         /\ 0 <= JOBS[j].duplicates
         /\ JOBS[j].duplicates <= JOBS[j].moved
    /\ reply.code = 200 =>
         /\ reply.job.moved <= reply.job.total
         /\ 0 <= reply.job.duplicates
         /\ reply.job.duplicates <= reply.job.moved

\* a poll lands between line 161 and line 162 of the last chunk, whose insert
\* was a no-op: moved is already total, duplicates is still behind
C2_Witness ==
    \E j \in DOMAIN JOBS :
        /\ PollOf(j)
        /\ task[j].pc = "duplicates" /\ task[j].inserted = 0
        /\ reply.job.moved = reply.job.total /\ reply.job.total = 2
        /\ reply.job.duplicates = 1

\* C3: in every snapshot a poll returns, finishedAt is set if and only if
\* status is completed or failed.
C3_FinishedIffTerminal ==
    (reply.op = "poll" /\ reply.code = 200) =>
        (reply.job.finishedAt # None <=> reply.job.status \in Terminal)

\* C4: every snapshot a poll returns is a point-in-time record: its duplicates
\* is the number of no-op attempts among exactly the first `moved` items.
C4_NoTornSnapshot ==
    \A j \in DOMAIN JOBS :
        PollOf(j) => reply.job.duplicates = Skipped(task[j].log, reply.job.moved)

\* C5: under fair scheduling of the runners, every job whose runner has been
\* scheduled reaches status completed or failed, unless the process is
\* restarted first (which drops the job and its task).
C5_EventuallyTerminal ==
    \A j \in JobIds :
        (j \in DOMAIN task) ~> (j \notin DOMAIN task \/ JOBS[j].status \in Terminal)

\* a job with an empty resolved list has completed
C5_Witness ==
    \E j \in DOMAIN JOBS :
        /\ JOBS[j].status = "completed" /\ JOBS[j].total = 0
        /\ task[j].pc = "done"

\* the writer raised in job j and the runner is in, or through, its handler
Failing(j) == task[j].pc \in {"failed", "message"} \/ JOBS[j].status = "failed"

\* C6: when the writer raises after k items went through, the job ends failed
\* with moved = k, message and finishedAt set; nothing after the failing item
\* is attempted, the k associations stay in storage, and moved and duplicates
\* are what they were before the failing attempt.
C6_FailureKeepsProgress ==
    \A j \in DOMAIN task :
        Failing(j) =>
            LET t == task[j]
                done == Attempted(t.log)
                k == Len(done)
            IN  /\ JOBS[j].moved = k
                /\ k < JOBS[j].total
                /\ done = SubSeq(t.company_ids, 1, k)
                /\ JOBS[j].duplicates = Skipped(t.log, k)
                /\ \A c \in Range(done) : <<c, t.target_list_id>> \in db
                /\ t.pc \in {"message", "finishedAt", "done"} => JOBS[j].status = "failed"
                /\ t.pc \in {"failed", "message"} => JOBS[j].finishedAt = None
                /\ t.pc = "done" => JOBS[j].message # None /\ JOBS[j].finishedAt # None

\* the second item of a two-item job failed after the first one was newly
\* inserted; the runner has returned
C6_Witness ==
    \E j \in DOMAIN task :
        /\ task[j].pc = "done" /\ JOBS[j].status = "failed"
        /\ JOBS[j].total = 2 /\ JOBS[j].moved = 1 /\ JOBS[j].duplicates = 0
        /\ <<task[j].company_ids[1], task[j].target_list_id>> \in db

\* the requests the claim says are rejected
Invalid(body) ==
    \/ body.sourceListId = body.targetListId
    \/ ~body.selection.hasIds /\ body.selection.all # "True"

\* C7: a submission with source = target, or with neither an ids list nor
\* all = true, is answered 400 and changes neither the ledger nor storage nor
\* the scheduled tasks; any other submission, also one with an empty ids list,
\* is accepted and adds a job.
C7_RejectedSubmission ==
    [][reply'.op = "start" =>
       \A body \in Requests :
         start_move_job(body) =>
            IF Invalid(body)
            THEN reply'.code = 400 /\ UNCHANGED <<JOBS, db, task, loop, nextId>>
            ELSE /\ reply'.code = 200
                 /\ DOMAIN JOBS' = DOMAIN JOBS \cup {nextId}
                 /\ DOMAIN task' = DOMAIN task \cup {nextId}]_vars

\* a submission was rejected for its selection
C7_Witness ==
    /\ reply.op = "start" /\ reply.code = 400
    /\ reply.job.detail = "Provide either selection.ids or selection.all=true"

\* C8: a poll answers 404 exactly when the id was not issued by an accepted
\* submission of the running process; for an issued id it returns the entry
\* as it is, whatever its status.
C8_NotFoundIffNotIssued ==
    reply.op = "poll" =>
        /\ reply.code = 404 <=> reply.jobId \notin DOMAIN task
        /\ reply.code = 200 => reply.job = JOBS[reply.jobId]

\* a poll for an id issued before the restart answers 404
C8_Witness ==
    /\ reply.op = "poll" /\ reply.code = 404
    /\ reply.jobId < nextId

\* C9: total is the length of the list resolved at submission and never
\* changes, and the items the runner attempts are that list in order, also
\* when the source's membership changes while the job is queued or running.
C9_TotalAndOrderFixed ==
    /\ [](\A j \in DOMAIN task :
            /\ JOBS[j].total = Len(task[j].company_ids)
            /\ Attempted(task[j].log) =
                 SubSeq(task[j].company_ids, 1, Len(Attempted(task[j].log))))
    /\ [][\A j \in DOMAIN task \cap DOMAIN task' :
            /\ task'[j].company_ids = task[j].company_ids
            /\ JOBS'[j].total = JOBS[j].total]_vars

\* a two-item job completed although its source's membership was changed
\* under it and the source now holds neither item
C9_Witness ==
    \E j \in DOMAIN task :
        /\ task[j].disturbed /\ task[j].pc = "done"
        /\ JOBS[j].status = "completed" /\ JOBS[j].total = 2
        /\ Len(task[j].log) = 2
        /\ \A c \in Items : <<c, task[j].source>> \notin db

\* C10: when start_move_job returns, the job's runner has not started and has
\* written nothing, and the snapshot returned has moved = 0, duplicates = 0,
\* finishedAt unset and total = the resolved count.
C10_ReturnsBeforeAnyChunk ==
    (reply.op = "start" /\ reply.code = 200) =>
        LET t == task[reply.jobId] IN
        /\ t.pc = "scheduled" /\ t.log = <<>>
        /\ reply.job.moved = 0 /\ reply.job.duplicates = 0
        /\ reply.job.finishedAt = None
        /\ reply.job.total = Len(t.company_ids)

\* a submission of two items, neither of them in the target yet, has returned
C10_Witness ==
    /\ reply.op = "start" /\ reply.code = 200 /\ reply.job.total = 2
    /\ \A c \in Items : <<c, task[reply.jobId].target_list_id>> \notin db

\* C11: when the selection carries an ids list, the resolver returns that
\* list with repeats removed, each id at the place of its first occurrence,
\* whatever storage holds and whatever `all` and excludeIds say.
C11_ResolveIds ==
    probe.fn = "resolve" /\ probe.body.selection.hasIds =>
        LET ids == probe.body.selection.ids
            out == probe.out
            first(x) == CHOOSE k \in 1..Len(ids) :
                          ids[k] = x /\ \A m \in 1..(k - 1) : ids[m] # x
        IN /\ ~probe.raised
           /\ Range(out) = Range(ids)
           /\ \A a, b \in 1..Len(out) : a < b => first(out[a]) < first(out[b])

\* [5,3,5,7,3] resolved to [5,3,7] on a non-empty storage, with all = true
\* and 5 among the excludeIds
C11_Witness ==
    /\ probe.fn = "resolve"
    /\ probe.body.selection = Selection(TRUE, <<5, 3, 5, 7, 3>>, "True", <<5>>)
    /\ probe.out = <<5, 3, 7>>
    /\ db # {}

\* C12: when the selection carries no ids list and all is true, the resolver
\* returns, each once, the companies storage associates with the source
\* collection that are not named in excludeIds; no id named in excludeIds is
\* returned, member or not.
C12_ResolveAll ==
    probe.fn = "resolve" /\ ~probe.body.selection.hasIds
        /\ probe.body.selection.all = "True" =>
        LET out == probe.out
            excl == Range(probe.body.selection.excludeIds)
            members == {c \in Items : <<c, probe.body.sourceListId>> \in db}
        IN /\ ~probe.raised
           /\ Range(out) = members \ excl
           /\ Len(out) = Cardinality(Range(out))
           /\ Range(out) \cap excl = {}

\* source A holds companies 1 and 2, excludeIds names member 2 and stranger 5:
\* the resolver returned [1]
C12_Witness ==
    /\ probe.fn = "resolve"
    /\ probe.body.sourceListId = "A"
    /\ probe.body.selection = Selection(FALSE, <<>>, "True", <<2, 5>>)
    /\ {c \in Items : <<c, "A">> \in db} = {1, 2}
    /\ probe.out = <<1>>

\* C13: the writer called a second time with the same arguments returns 0 and
\* leaves storage as the first call left it; the first call returns the number
\* of companies of the chunk that had no association with the target before
\* it; on an empty chunk it returns 0 and storage is as it was.
C13_WriterIdempotent ==
    probe.fn = "upsert" =>
        LET absent == {c \in Range(probe.company_ids) :
                         <<c, probe.target_list_id>> \notin probe.before}
        IN /\ probe.second = 0
           /\ db = probe.between
           /\ probe.first = Cardinality(absent)
           /\ probe.between = probe.before \cup (absent \X {probe.target_list_id})
           /\ probe.company_ids = <<>> => probe.first = 0 /\ db = probe.before

\* a chunk of two companies, one of them in the target already: the first call
\* returned 1
C13_Witness ==
    /\ probe.fn = "upsert"
    /\ Len(probe.company_ids) = 2
    /\ probe.first = 1
    /\ probe.between # probe.before
    /\ \E c \in Range(probe.company_ids) : <<c, probe.target_list_id>> \in probe.before

\* C14: when the jobs of one process that write to the same target, two or
\* more of them, have all completed, the target holds what it held when the
\* earliest of them was submitted together with all their resolved lists,
\* however their steps interleaved; and no two writer calls of two of the
\* jobs ever both report the same association as newly created.
C14_ConcurrentJobsConverge ==
    \A j, k \in DOMAIN task :
        j < k /\ task[j].target_list_id = task[k].target_list_id =>
            LET T == task[j].target_list_id
                same == {x \in DOMAIN task : task[x].target_list_id = T}
                first == CHOOSE x \in same : \A y \in same : x <= y
                logj == task[j].log
                logk == task[k].log
            IN /\ (\A x \in same : JOBS[x].status = "completed") =>
                    {c \in Items : <<c, T>> \in db}
                      = {c \in Items : <<c, T>> \in task[first].before}
                          \cup UNION {Range(task[x].company_ids) : x \in same}
               /\ \A a \in DOMAIN logj, b \in DOMAIN logk :
                    logj[a][2] + logk[b][2]
                      <= Cardinality(Range(logj[a][1]) \cup Range(logk[b][1]))

\* two jobs on an empty target, one resolved to [1,2] and one to [2,1], ran
\* interleaved: each created one association and met the other's as a
\* duplicate, and both completed
C14_Witness ==
    /\ DOMAIN task = {1, 2}
    /\ task[1].target_list_id = "B" /\ task[2].target_list_id = "B"
    /\ task[1].company_ids = <<1, 2>> /\ task[2].company_ids = <<2, 1>>
    /\ task[1].log = << <<<<1>>, 1>>, <<<<2>>, 0>> >>
    /\ task[2].log = << <<<<2>>, 1>>, <<<<1>>, 0>> >>
    /\ JOBS[1].status = "completed" /\ JOBS[2].status = "completed"
    /\ {c \in Items : <<c, "B">> \in db} = {1, 2}

\* C15: once the status of a ledger entry is completed or failed, no step
\* changes any field of the entry for as long as the ledger holds it, and no
\* submission replaces it.
C15_TerminalEntryFrozen ==
    [][\A j \in DOMAIN JOBS :
         JOBS[j].status \in Terminal /\ j \in DOMAIN JOBS' => JOBS'[j] = JOBS[j]]_vars

\* C16: in every state, the items a job's writer calls have written are a
\* prefix of its resolved list, in the list's order: the first `moved` items,
\* or those and the one next chunk when the job is between the writer's return
\* and the moved count; and each of the first `moved` items is associated
\* with the target.
C16_ChunksInOrder ==
    \A j \in DOMAIN task :
        LET t == task[j]
            done == Attempted(t.log)
        IN /\ Len(done) <= Len(t.company_ids)
           /\ done = SubSeq(t.company_ids, 1, Len(done))
           /\ IF t.pc = "moved"
              THEN /\ Len(t.log) > 0
                   /\ Len(done) = JOBS[j].moved + Len(t.log[Len(t.log)][1])
                   /\ Len(t.log[Len(t.log)][1]) <= BATCH
              ELSE Len(done) = JOBS[j].moved
           /\ \A n \in 1..JOBS[j].moved : <<t.company_ids[n], t.target_list_id>> \in db

\* a job resolved to [2,1] has written 2 and then 1 and counted only the
\* first of them
C16_Witness ==
    \E j \in DOMAIN task :
        /\ task[j].company_ids = <<2, 1>>
        /\ task[j].pc = "moved"
        /\ Attempted(task[j].log) = <<2, 1>>
        /\ JOBS[j].moved = 1

\* C17: whenever a job's status is completed, moved equals total, total is
\* the length of the resolved list and every item of that list is associated
\* with the target; a job whose resolved list is empty is completed with
\* moved, total and duplicates all 0.
C17_CompletedMeansAllWritten ==
    \A j \in DOMAIN JOBS :
        JOBS[j].status = "completed" =>
            LET t == task[j] IN
            /\ JOBS[j].moved = JOBS[j].total
            /\ JOBS[j].total = Len(t.company_ids)
            /\ \A c \in Range(t.company_ids) : <<c, t.target_list_id>> \in db
            /\ t.company_ids = <<>> =>
                 JOBS[j].moved = 0 /\ JOBS[j].total = 0 /\ JOBS[j].duplicates = 0

\* ids [1,2] into a target that held company 1 already: completed with moved
\* 2, total 2, duplicates 1 and both companies in the target
C17_Witness ==
    \E j \in DOMAIN JOBS :
        /\ JOBS[j].status = "completed"
        /\ task[j].company_ids = <<1, 2>>
        /\ <<1, task[j].target_list_id>> \in task[j].before
        /\ JOBS[j].moved = 2 /\ JOBS[j].total = 2 /\ JOBS[j].duplicates = 1
        /\ {<<1, task[j].target_list_id>>, <<2, task[j].target_list_id>>} \subseteq db

\* C18: between two chunks, a job's moved - duplicates is the number of
\* associations its own writer calls created; when every job of the process
\* is between two chunks, moved - duplicates summed over the jobs is the
\* number of associations storage gained since the first of them was
\* submitted; and a completed job with no other job on its target has as
\* duplicates the number of its resolved items that were associated with the
\* target at submission.
C18_Accounting ==
    /\ \A j \in DOMAIN task :
          AtBoundary(j) => JOBS[j].moved - JOBS[j].duplicates = Inserted(task[j].log)
    /\ DOMAIN task # {} /\ (\A j \in DOMAIN task : AtBoundary(j)) =>
          LET first == CHOOSE j \in DOMAIN task : \A k \in DOMAIN task : j <= k
          IN NewCounted(DOMAIN task) = Cardinality(db \ task[first].before)
    /\ \A j \in DOMAIN task :
          /\ JOBS[j].status = "completed"
          /\ \A k \in DOMAIN task \ {j} : task[k].target_list_id # task[j].target_list_id
          => JOBS[j].duplicates =
               Cardinality({n \in 1..Len(task[j].company_ids) :
                   <<task[j].company_ids[n], task[j].target_list_id>> \in task[j].before})

\* two jobs, both resolved to [1,2], ran interleaved on a target that held
\* neither company: each counted one new association and one duplicate, and
\* storage gained two associations
C18_Witness ==
    /\ DOMAIN task = {1, 2}
    /\ task[1].target_list_id = task[2].target_list_id
    /\ task[1].company_ids = <<1, 2>> /\ task[2].company_ids = <<1, 2>>
    /\ JOBS[1].status = "completed" /\ JOBS[2].status = "completed"
    /\ JOBS[1].moved = 2 /\ JOBS[1].duplicates = 1
    /\ JOBS[2].moved = 2 /\ JOBS[2].duplicates = 1
    /\ Cardinality(db \ task[1].before) = 2

\* C19: no step of a runner, submission or poll removes an association; an
\* association a step adds is added by a runner's writer call, is to that
\* job's target and is of an item of that job's current chunk of its resolved
\* list; so once a job is terminal, the associations its source collection
\* had at submission are all still there.
C19_OnlyAddsOwnRows ==
    /\ [][/\ db \subseteq db'
          /\ reply'.op \in {"start", "poll"} => db' = db
          /\ \A row \in db' \ db :
               \E j \in DOMAIN task :
                   /\ task[j].pc = "upsert" /\ task'[j].pc = "moved"
                   /\ row[2] = task[j].target_list_id
                   /\ row[1] \in Range(Chunk(task[j]))
                   /\ row[1] \in Range(task[j].company_ids)]_vars
    /\ [](\A j \in DOMAIN task :
            JOBS[j].status \in Terminal =>
                {row \in task[j].before : row[2] = task[j].source} \subseteq db)

\* a job that took both companies of its source collection is completed: the
\* target gained them and the source still holds them
C19_Witness ==
    \E j \in DOMAIN task :
        /\ JOBS[j].status = "completed"
        /\ Len(task[j].company_ids) = 2
        /\ \A c \in Items : <<c, task[j].source>> \in task[j].before
        /\ \A c \in Items : <<c, task[j].source>> \in db
        /\ \E c \in Items : <<c, task[j].target_list_id>> \in db \ task[j].before

\* C20: a step that changes an entry the ledger keeps is a step of that
\* job's own runner; a step of another job's runner, a poll and a submission,
\* accepted or rejected, leave every existing entry as it was; an accepted
\* submission adds one entry, under an id the ledger did not hold, and
\* answers with that id.
C20_OnlyOwnRunnerWrites ==
    [][/\ \A j \in DOMAIN JOBS \cap DOMAIN JOBS' :
            JOBS'[j] # JOBS[j] => task'[j].pc # task[j].pc /\ reply'.op = "none"
       /\ \A j, k \in DOMAIN task \cap DOMAIN task' :
            k # j /\ task'[k] # task[k] => JOBS'[j] = JOBS[j]
       /\ reply'.op \in {"start", "poll"} =>
            \A j \in DOMAIN JOBS : j \in DOMAIN JOBS' /\ JOBS'[j] = JOBS[j]
       /\ reply'.op = "poll" \/ (reply'.op = "start" /\ reply'.code # 200) =>
            JOBS' = JOBS
       /\ reply'.op = "start" /\ reply'.code = 200 =>
            \E n \in JobIds \ DOMAIN JOBS :
                /\ DOMAIN JOBS' = DOMAIN JOBS \cup {n}
                /\ reply'.jobId = n]_vars

\* two jobs are running: the first has counted one chunk, the second is
\* between its first writer call and its count
C20_Witness ==
    /\ DOMAIN JOBS = {1, 2}
    /\ JOBS[1].status = "running" /\ JOBS[1].moved = 1 /\ JOBS[1].total = 2
    /\ JOBS[2].status = "running" /\ JOBS[2].moved = 0
    /\ task[2].pc = "moved"
====
